---- MODULE Spec2Model ----
(***************************************************************************)
(* A model of shecv: the ListInterface navigation state machine driven by   *)
(* process_events (src/src/window.rs), the type-erased ValueStore and its   *)
(* key handles (src/src/types.rs), the list widget (src/src/listui.rs) and  *)
(* the layout pass State::layout_listui (src/src/window.rs).                *)
(*                                                                          *)
(* Rust panics (unwrap on None, remainder by zero, integer overflow in a    *)
(* build with overflow checks) abort the process: they are recorded in      *)
(* `fault`, and no action is enabled once fault # "none".                   *)
(***************************************************************************)
EXTENDS Integers, Sequences, FiniteSets, TLC

VARIABLES
    overflow_checks,  \* build profile: TRUE = overflow checks on (debug), FALSE = release
    fault,            \* "none", or the panic that aborted the process
    listuis,          \* State.listuis : Vec<ListInterface>
    last_ui_time,     \* State.last_ui_time : Option<SystemTime>, <<>> = None, <<t>> = Some(t)
    clock,            \* the reading SystemTime::now() returns, in milliseconds
    event,            \* the event the last run of a process_events match arm handled
    nav_trace,        \* history: the navigation events handled to completion, newest last
    pc,               \* where the driver is: "setup" (before the frame loop), "loop", or
                      \* the step of the frame loop that comes next
    laid,             \* history: the store as the latest layout pass read it, if any
    store,            \* ValueStore.map : HashMap<String, Box<dyn ListItemData>>
    values,           \* the Value handles alive (Rc<RefCell<Value<dyn ListItemData>>>)
    call,             \* the last ValueStore / Value / layout call and its outcome
    texts,            \* Context.texts.texts : Vec<TextLabel>
    instance_groups,  \* Context.geos.instance_groups[*].instance_buffer_manager
    config            \* Context.config : the surface's width and height

sysVars == <<overflow_checks, fault>>
navVars == <<listuis, last_ui_time, clock, event>>
drvVars == <<nav_trace, pc, laid>>
storeVars == <<store, values, call>>
gfxVars == <<texts, instance_groups, config>>
vars == <<overflow_checks, fault, listuis, last_ui_time, clock, event, nav_trace, pc,
          laid, store, values, call, texts, instance_groups, config>>

(***************************************************************************)
(* Bounds of the model.                                                     *)
(***************************************************************************)
MaxLists == 1
MaxEntries == 3
MaxTime == 180
TickMs == 30
MaxTrace == 4
MaxHandles == 2

(***************************************************************************)
(* Program constants.                                                       *)
(***************************************************************************)
ui_wait == 60

None == <<>>
Some(x) == <<x>>
IsSome(o) == Len(o) = 1
Unwrap(o) == o[1]

Min(a, b) == IF a < b THEN a ELSE b

\* The keys the program uses: main.rs inserts "time"; process_events touches
\* "key1" and "key3".
Keys == {"time", "key1", "key3"}

\* Values of supported ListItemData types.  An f64 carries its value in
\* hundredths, so that `val + 0.01` is `v + 1`.
F64(n) == [ty |-> "f64", v |-> n]
Str(s) == [ty |-> "String", s |-> s]
Bool(b) == [ty |-> "bool", b |-> b]
ValueSamples == {F64(0), F64(150), Str("banana")}

\* The call record before any call was made.
NoCall == [op |-> "none", h |-> 0, val |-> None, old |-> None]

(***************************************************************************)
(* listui.rs: the widget model.                                             *)
(***************************************************************************)
ListItem(label, ty, selectable, editable, value) ==
    [label |-> label, ty |-> ty, selectable |-> selectable,
     editable |-> editable, value |-> value]

\* ListStyle::default(): the colours by the names of their ColorRGBA
\* constructors.
ListStyleDefault ==
    [bg |-> "grey_darkest",
     li_selected |-> "white", li_selected_bg |-> "grey_medium",
     li_activated |-> "white", li_activated_bg |-> "grey_lighter",
     li_unselected |-> "grey_light", li_unselected_bg |-> "grey_dark",
     li_disabled |-> "grey_dark", li_disabled_bg |-> "grey_darker"]

\* ListInterface::default(render_group_index)
ListInterfaceDefault(render_group_index) ==
    [style |-> ListStyleDefault,
     anchor |-> "Left", focused |-> FALSE, resume |-> "First",
     selected_index |-> 0, entries |-> <<>>,
     render_group_index |-> render_group_index]

\* self.entries.push(ListItem {..}) of add_labeled_value
PushLabeledValue(l, label, value) ==
    [l EXCEPT !.entries =
        Append(@, ListItem(label, "Text", "Selectable", "NotEditable", value))]

\* self.entries.push(ListItem {..}) of add_entry
PushEntry(l, label, ty, selectable, editable, value) ==
    [l EXCEPT !.entries = Append(@, ListItem(label, ty, selectable, editable, value))]

(***************************************************************************)
(* window.rs, process_events: the Up and Down arms.                         *)
(***************************************************************************)
\* `(listui.entries.len() - 1) as i32`.  len() is a usize: 0 - 1 panics in a
\* build with overflow checks and wraps to usize::MAX otherwise, whose low
\* 32 bits read as an i32 are -1.
LenMinusOneAsI32(len) ==
    IF len = 0
    THEN IF overflow_checks
         THEN [fault |-> "sub_overflow", v |-> 0]
         ELSE [fault |-> "none", v |-> -1]
    ELSE [fault |-> "none", v |-> len - 1]

\* NavigateUp with the wrap at index 0 left out (saturating at the top).
NavigateUpSaturating(l) ==
    IF l.selected_index > 0
    THEN [listui |-> [l EXCEPT !.selected_index = @ - 1], fault |-> "none"]
    ELSE [listui |-> l, fault |-> "none"]

\* The body of `for listui in &mut state.listuis` in the Up arm.
NavigateUp(l) ==
    IF l.selected_index = 0
    THEN LET m == LenMinusOneAsI32(Len(l.entries))
         IN IF m.fault # "none"
            THEN [listui |-> l, fault |-> m.fault]
            ELSE [listui |-> [l EXCEPT !.selected_index = m.v], fault |-> "none"]
    ELSE IF l.selected_index >= 0
         THEN [listui |-> [l EXCEPT !.selected_index = @ - 1], fault |-> "none"]
         ELSE [listui |-> l, fault |-> "none"]

\* NavigateDown with the wrap at the last index left out (saturating at the
\* bottom).
NavigateDownSaturating(l) ==
    IF l.selected_index >= 0 /\ l.selected_index < Len(l.entries) - 1
    THEN [listui |-> [l EXCEPT !.selected_index = @ + 1], fault |-> "none"]
    ELSE [listui |-> l, fault |-> "none"]

\* The body of `for listui in &mut state.listuis` in the Down arm.  The
\* remainder by entries.len() panics when the list is empty, in every build.
NavigateDown(l) ==
    LET m == LenMinusOneAsI32(Len(l.entries))
    IN IF m.fault # "none"
       THEN [listui |-> l, fault |-> m.fault]
       ELSE IF l.selected_index = m.v
            THEN [listui |-> [l EXCEPT !.selected_index = 0], fault |-> "none"]
            ELSE IF l.selected_index >= 0
                 THEN IF Len(l.entries) = 0
                      THEN [listui |-> l, fault |-> "rem_zero"]
                      ELSE [listui |-> [l EXCEPT !.selected_index =
                                           (@ + 1) % Len(l.entries)],
                            fault |-> "none"]
                 ELSE [listui |-> l, fault |-> "none"]

Navigate(kind, l) == IF kind = "Up" THEN NavigateUp(l) ELSE NavigateDown(l)

\* `for listui in &mut state.listuis { .. }`: the lists in order; a panic
\* leaves the lists after it untouched.
RECURSIVE ForEachListui(_, _, _)
ForEachListui(kind, ls, i) ==
    IF i > Len(ls)
    THEN [listuis |-> ls, fault |-> "none"]
    ELSE LET r == Navigate(kind, ls[i])
         IN IF r.fault # "none"
            THEN [listuis |-> ls, fault |-> r.fault]
            ELSE ForEachListui(kind, [ls EXCEPT ![i] = r.listui], i + 1)

\* input_ok with the comparison made inclusive (>= for >).
InputOkInclusive(last, now) ==
    ~(IsSome(last) /\ Unwrap(last) + ui_wait >= now)

\* input_ok: false when last_ui_time is Some and last_ui_time + ui_wait > now.
InputOk(last, now) ==
    ~(IsSome(last) /\ Unwrap(last) + ui_wait > now)

\* The readings the second SystemTime::now() of an arm may return: the
\* first reading or a later one.
SecondRead == {clock} \cup {t \in {clock + TickMs} : t <= MaxTime}

\* Event::KeyDown { keycode: Some(Keycode::Up | Keycode::Down) }
KeyDown(kind) ==
    /\ fault = "none"
    /\ LET ok == InputOk(last_ui_time, clock)
           r == ForEachListui(kind, listuis, 1)
       IN IF ~ok
          THEN /\ event' = [kind |-> kind, input_ok |-> FALSE, now |-> clock]
               /\ UNCHANGED <<listuis, last_ui_time, clock, fault>>
          ELSE /\ event' = [kind |-> kind, input_ok |-> TRUE, now |-> clock]
               /\ listuis' = r.listuis
               /\ fault' = r.fault
               /\ IF r.fault = "none"
                  THEN \E now2 \in SecondRead :
                            /\ last_ui_time' = Some(now2)
                            /\ clock' = now2
                  ELSE UNCHANGED <<last_ui_time, clock>>
    /\ UNCHANGED <<overflow_checks, storeVars, gfxVars>>

\* Time passes between two events.
Tick ==
    /\ fault = "none"
    /\ clock + TickMs <= MaxTime
    /\ clock' = clock + TickMs
    /\ UNCHANGED <<sysVars, listuis, last_ui_time, event, storeVars, gfxVars>>

\* SystemTime is the wall clock, which may be set back.
ClockSetBack ==
    /\ fault = "none"
    /\ clock - TickMs >= 0
    /\ clock' = clock - TickMs
    /\ UNCHANGED <<sysVars, listuis, last_ui_time, event, storeVars, gfxVars>>

\* InstanceBufferManager::new(max_instances): no instance, and a GPU buffer of
\* max_instances slots, of which `buffer` holds those written so far.
InstanceBufferManagerNew(max_instances) ==
    [data |-> <<>>, buffer |-> <<>>, capacity |-> max_instances]

\* State::new_listui: a new render group and an empty ListInterface on it.
NewListui ==
    /\ fault = "none"
    /\ Len(listuis) < MaxLists
    /\ instance_groups' = Append(instance_groups, InstanceBufferManagerNew(512))
    /\ listuis' = Append(listuis, ListInterfaceDefault(Len(instance_groups)))
    /\ UNCHANGED <<sysVars, last_ui_time, clock, event, storeVars, texts, config>>

\* ListInterface::add_labeled_value on list i, with the handle values[h].
AddLabeledValue(i, label, h) ==
    /\ fault = "none"
    /\ i \in 1..Len(listuis)
    /\ h \in 1..Len(values)
    /\ Len(listuis[i].entries) < MaxEntries
    /\ listuis' = [listuis EXCEPT ![i] = PushLabeledValue(@, label, h)]
    /\ UNCHANGED <<sysVars, last_ui_time, clock, event, storeVars, gfxVars>>

\* ListInterface::add_entry on list i.
AddEntry(i, label, ty, selectable, editable, h) ==
    /\ fault = "none"
    /\ i \in 1..Len(listuis)
    /\ h \in 1..Len(values)
    /\ Len(listuis[i].entries) < MaxEntries
    /\ listuis' = [listuis EXCEPT ![i] = PushEntry(@, label, ty, selectable, editable, h)]
    /\ UNCHANGED <<sysVars, last_ui_time, clock, event, storeVars, gfxVars>>

(***************************************************************************)
(* The navigation specification: State::new, the store of main.rs with      *)
(* "time" inserted, then lists created and filled and events handled in     *)
(* any order, under either build profile.                                   *)
(***************************************************************************)
NavInit ==
    /\ overflow_checks \in BOOLEAN
    /\ fault = "none"
    /\ listuis = <<>>
    /\ last_ui_time = None
    /\ clock = 0
    /\ event = [kind |-> "None", input_ok |-> FALSE, now |-> 0]
    /\ nav_trace = <<>>
    /\ pc = "setup"
    /\ laid = None
    /\ store = [k \in {"time"} |-> F64(0)]
    /\ values = <<[key |-> "time"]>>
    /\ call = NoCall
    /\ texts = <<>>
    /\ instance_groups = <<>>
    /\ config = [width |-> 640, height |-> 480]

NavNewListui == NewListui /\ UNCHANGED drvVars

NavAddLabeledValue ==
    /\ \E i \in 1..MaxLists : AddLabeledValue(i, "time", 1)
    /\ UNCHANGED drvVars

NavAddEntry ==
    /\ \E i \in 1..MaxLists :
          AddEntry(i, "time", "Text", "Selectable", "NotEditable", 1)
    /\ UNCHANGED drvVars

NavKeyDownUp == KeyDown("Up") /\ UNCHANGED drvVars

NavKeyDownDown == KeyDown("Down") /\ UNCHANGED drvVars

NavTick == Tick /\ UNCHANGED drvVars

NavClockSetBack == ClockSetBack /\ UNCHANGED drvVars

NavNext ==
    \/ NavNewListui
    \/ NavAddLabeledValue
    \/ NavAddEntry
    \/ NavKeyDownUp
    \/ NavKeyDownDown
    \/ NavTick
    \/ NavClockSetBack

NavSpec == NavInit /\ [][NavNext]_vars

(***************************************************************************)
(* The same machine with its history: nav_trace records every navigation    *)
(* event that was accepted and handled to completion, with the selection    *)
(* of every list before it, and starts afresh when a list or an entry is    *)
(* added, so that it always holds consecutive events on unchanged lists.    *)
(***************************************************************************)
\* The selected_index of every list, in order.
Selection(ls) == [i \in 1..Len(ls) |-> ls[i].selected_index]

PushTrace(tr, e) ==
    LET t == Append(tr, e)
    IN IF Len(t) > MaxTrace THEN SubSeq(t, 2, Len(t)) ELSE t

RecordNav(kind) ==
    /\ nav_trace' = IF event'.input_ok /\ fault' = "none"
                    THEN PushTrace(nav_trace,
                                   [kind |-> kind, before |-> Selection(listuis)])
                    ELSE nav_trace
    /\ UNCHANGED <<pc, laid>>

ResetTrace == nav_trace' = <<>> /\ UNCHANGED <<pc, laid>>

TraceNewListui == NewListui /\ ResetTrace

TraceAddLabeledValue ==
    /\ \E i \in 1..MaxLists : AddLabeledValue(i, "time", 1)
    /\ ResetTrace

TraceKeyDownUp == KeyDown("Up") /\ RecordNav("Up")

TraceKeyDownDown == KeyDown("Down") /\ RecordNav("Down")

TraceTick == Tick /\ UNCHANGED drvVars

TraceNext ==
    \/ TraceNewListui
    \/ TraceAddLabeledValue
    \/ TraceKeyDownUp
    \/ TraceKeyDownDown
    \/ TraceTick

TraceSpec == NavInit /\ [][TraceNext]_vars

(***************************************************************************)
(* Navigation claims.                                                       *)
(***************************************************************************)
NavKinds == {"Up", "Down"}

\* A step in which an Up or Down event passed the cooldown gate.
AcceptedNav(kind) == KeyDown(kind) /\ event'.input_ok

\* C1: an accepted NavigateUp or NavigateDown on a ListInterface with zero
\* entries never faults and leaves selected_index unchanged.
C1_EmptyListNavigationIsNoOp ==
    [][\A kind \in NavKinds : AcceptedNav(kind) =>
          \A i \in 1..Len(listuis) :
              Len(listuis[i].entries) = 0 =>
                  /\ fault' = "none"
                  /\ listuis'[i].selected_index = listuis[i].selected_index]_vars

\* The last n events of the history are all of the given kind.
LastAre(n, kind) ==
    /\ Len(nav_trace) >= n
    /\ \A j \in (Len(nav_trace) - n + 1)..Len(nav_trace) : nav_trace[j].kind = kind

\* The selection of list k before the j-th newest event of the history
\* (j = 1: the newest).
Before(j, k) == nav_trace[Len(nav_trace) - j + 1].before[k]

\* C2: on a list of N >= 1 entries with selected_index i in 0..N-1, an
\* accepted NavigateDown sets selected_index to (i+1) mod N; N accepted
\* NavigateDown events in a row return selected_index to its original
\* value; and with three entries starting at 0, four NavigateDown events in
\* a row meet the selections 0, 1, 2, 0.  (Stated of the running program:
\* the history holds the events handled to completion.)
C2_NavigateDownIsCyclic ==
    \A k \in 1..Len(listuis) :
        LET N == Len(listuis[k].entries)
            sel == listuis[k].selected_index
        IN (N >= 1 /\ fault = "none") =>
            /\ (LastAre(1, "Down") /\ Before(1, k) \in 0..(N - 1))
                  => sel = (Before(1, k) + 1) % N
            /\ (LastAre(N, "Down") /\ Before(N, k) \in 0..(N - 1))
                  => sel = Before(N, k)
            /\ (N = 3 /\ LastAre(4, "Down") /\ Before(4, k) = 0)
                  => <<Before(4, k), Before(3, k), Before(2, k), Before(1, k)>>
                         = <<0, 1, 2, 0>>

\* Four NavigateDown events in a row on a list of three entries that started
\* at 0.
C2_Witness ==
    /\ Len(listuis) >= 1
    /\ Len(listuis[1].entries) = 3
    /\ LastAre(4, "Down")
    /\ Before(4, 1) = 0
    /\ listuis[1].selected_index = 1

\* C3: on a non-empty list with selected_index in 0..len-1, an accepted
\* NavigateUp immediately followed by an accepted NavigateDown leaves
\* selected_index at its starting value.  (Stated of the running program:
\* the history holds the events handled to completion.)
C3_UpThenDownIsIdentity ==
    \A k \in 1..Len(listuis) :
        LET N == Len(listuis[k].entries)
        IN (/\ N >= 1
            /\ fault = "none"
            /\ Len(nav_trace) >= 2
            /\ nav_trace[Len(nav_trace) - 1].kind = "Up"
            /\ nav_trace[Len(nav_trace)].kind = "Down"
            /\ Before(2, k) \in 0..(N - 1))
           => listuis[k].selected_index = Before(2, k)

\* Up then Down from index 0 of a three-entry list: the wrap case.
C3_Witness ==
    /\ Len(listuis) >= 1
    /\ Len(listuis[1].entries) = 3
    /\ Len(nav_trace) >= 2
    /\ nav_trace[Len(nav_trace) - 1].kind = "Up"
    /\ nav_trace[Len(nav_trace)].kind = "Down"
    /\ Before(2, 1) = 0
    /\ Before(1, 1) = 2
    /\ listuis[1].selected_index = 0

\* C4: whenever entries is non-empty, 0 <= selected_index < entries.len().
C4_SelectedIndexInRange ==
    \A i \in 1..Len(listuis) :
        Len(listuis[i].entries) > 0 =>
            /\ 0 <= listuis[i].selected_index
            /\ listuis[i].selected_index < Len(listuis[i].entries)

\* C5: if selected_index is -1 and the list has at least one entry, an
\* accepted NavigateUp or NavigateDown sets selected_index to an index in
\* 0..len-1.
C5_NavigationReclamps ==
    [][\A kind \in NavKinds : AcceptedNav(kind) =>
          \A i \in 1..Len(listuis) :
              (listuis[i].selected_index = -1 /\ Len(listuis[i].entries) >= 1) =>
                  listuis'[i].selected_index \in 0..(Len(listuis[i].entries) - 1)]_vars

MapInsert(m, k, v) ==
    [x \in DOMAIN m \cup {k} |-> IF x = k THEN v ELSE m[x]]

\* HashMap::remove(key)
MapRemove(m, k) == [x \in DOMAIN m \ {k} |-> m[x]]

\* Value { p: PhantomData, key }
Value(key) == [key |-> key]

\* Value::new that keeps a value already stored under the key (or_insert for
\* insert).
ValueNewKeepsOld(m, key, boxed_value) ==
    IF key \in DOMAIN m THEN m ELSE MapInsert(m, key, boxed_value)

\* Value::new: the store's part.
ValueNew(m, key, boxed_value) == MapInsert(m, key, boxed_value)

\* Value::replace that keeps the old entry when there is one (the insert
\* left out).
ValueReplaceKeepsOld(m, self, boxed_value) ==
    IF self.key \in DOMAIN m THEN m ELSE MapInsert(m, self.key, boxed_value)

\* Value::replace: remove the key, then insert the new value under it.
ValueReplace(m, self, boxed_value) ==
    MapInsert(MapRemove(m, self.key), self.key, boxed_value)

\* Value::load that answers a default for an absent key instead of failing.
ValueLoadOrDefault(m, self) ==
    IF self.key \in DOMAIN m THEN Some(m[self.key]) ELSE Some(F64(0))

\* Value::load: store.map.get(&self.key), None for an absent key; the caller
\* unwraps it.
ValueLoad(m, self) ==
    IF self.key \in DOMAIN m THEN Some(m[self.key]) ELSE None

\* What the record of a load remembers of the call made just before it: a
\* replace, or that it was none.
Prev ==
    IF call.op = "replace"
    THEN [op |-> call.op, h |-> call.h, val |-> call.val, old |-> call.old]
    ELSE [op |-> "other", h |-> 0, val |-> None, old |-> None]

\* ValueStore::insert(key, v); the caller keeps the returned handle or drops it.
Insert(key, v, keep) ==
    /\ fault = "none"
    /\ keep => Len(values) < MaxHandles
    /\ store' = ValueNew(store, key, v)
    /\ values' = IF keep THEN Append(values, Value(key)) ELSE values
    /\ call' = [op |-> "insert", h |-> IF keep THEN Len(values) + 1 ELSE 0,
                val |-> Some(v), old |-> ValueLoad(store, Value(key))]
    /\ UNCHANGED <<sysVars, navVars, gfxVars>>

\* ValueStore::get(key): a handle for key, whether or not the key is stored.
Get(key) ==
    /\ fault = "none"
    /\ Len(values) < MaxHandles
    /\ values' = Append(values, Value(key))
    /\ call' = [op |-> "get", h |-> Len(values) + 1, val |-> None, old |-> None]
    /\ UNCHANGED <<sysVars, navVars, store, gfxVars>>

\* Value::replace through the handle values[h].
Replace(h, v) ==
    /\ fault = "none"
    /\ h \in 1..Len(values)
    /\ store' = ValueReplace(store, values[h], v)
    /\ values' = [values EXCEPT ![h] = Value(@.key)]
    /\ call' = [op |-> "replace", h |-> h, val |-> Some(v),
                old |-> ValueLoad(store, values[h])]
    /\ UNCHANGED <<sysVars, navVars, gfxVars>>

\* Value::load through the handle values[h]: the value, or the panic of
\* unwrap on None.
Load(h) ==
    /\ fault = "none"
    /\ h \in 1..Len(values)
    /\ LET r == ValueLoad(store, values[h])
       IN /\ fault' = IF r = None THEN "unwrap_none" ELSE "none"
          /\ call' = [op |-> "load", h |-> h, val |-> None, old |-> None,
                      ret |-> r, prev |-> Prev]
    /\ UNCHANGED <<overflow_checks, navVars, store, values, gfxVars>>

(***************************************************************************)
(* The store specification: ValueStore::new, then insert, get, replace and  *)
(* load in any order.                                                       *)
(***************************************************************************)
StoreInit ==
    /\ overflow_checks \in BOOLEAN
    /\ fault = "none"
    /\ listuis = <<>>
    /\ last_ui_time = None
    /\ clock = 0
    /\ event = [kind |-> "None", input_ok |-> FALSE, now |-> 0]
    /\ nav_trace = <<>>
    /\ pc = "setup"
    /\ laid = None
    /\ store = <<>>
    /\ values = <<>>
    /\ call = NoCall
    /\ texts = <<>>
    /\ instance_groups = <<>>
    /\ config = [width |-> 640, height |-> 480]

StoreInsert ==
    /\ \E k \in Keys, v \in ValueSamples, keep \in BOOLEAN : Insert(k, v, keep)
    /\ UNCHANGED drvVars

StoreGet == (\E k \in Keys : Get(k)) /\ UNCHANGED drvVars

StoreReplace ==
    /\ \E h \in 1..MaxHandles, v \in ValueSamples : Replace(h, v)
    /\ UNCHANGED drvVars

StoreLoad == (\E h \in 1..MaxHandles : Load(h)) /\ UNCHANGED drvVars

StoreNext ==
    \/ StoreInsert
    \/ StoreGet
    \/ StoreReplace
    \/ StoreLoad

StoreSpec == StoreInit /\ [][StoreNext]_vars

(***************************************************************************)
(* Store claims.                                                            *)
(***************************************************************************)
\* C7: for a handle whose key is present in the store and any value v,
\* replace(handle, v) followed by load(handle) returns v, whatever the type
\* of the value stored before.
C7_ReplaceThenLoad ==
    (/\ call.op = "load"
     /\ call.prev.op = "replace"
     /\ call.prev.h = call.h
     /\ call.prev.old # None) => call.ret = call.prev.val

\* A load that followed a replace through the same handle, the replace
\* having put a String where an f64 was.
C7_Witness ==
    /\ call.op = "load"
    /\ call.prev.op = "replace"
    /\ call.prev.h = call.h
    /\ call.prev.old # None
    /\ Unwrap(call.prev.old).ty = "f64"
    /\ call.prev.val = Some(Str("banana"))
    /\ call.ret = Some(Str("banana"))

\* C8: replace through a handle changes neither the handle's key, nor the
\* set of keys of the store, nor the value of any other key, and every
\* handle with the same key loads the new value afterwards.
C8_ReplaceFrame ==
    [][\A h \in 1..MaxHandles, v \in ValueSamples : Replace(h, v) =>
          /\ values'[h].key = values[h].key
          /\ DOMAIN store' = DOMAIN store
          /\ \A k \in DOMAIN store \ {values[h].key} : store'[k] = store[k]
          /\ \A g \in 1..Len(values) :
                values[g].key = values[h].key =>
                    ValueLoad(store', values'[g]) = Some(v)]_vars

\* C9: replace through a handle whose key is absent from the store fails and
\* leaves the store unchanged; no operation other than insert adds a key.
C9_ReplaceAbsentKeyFails ==
    [][/\ \A h \in 1..MaxHandles, v \in ValueSamples :
             (Replace(h, v) /\ values[h].key \notin DOMAIN store) =>
                 /\ fault' # "none"
                 /\ store' = store
       /\ (DOMAIN store' \subseteq DOMAIN store) \/ call'.op = "insert"]_vars

\* C12: insert(key, v) leaves the store holding v under key, whatever was
\* stored there before, and changes no other key; the returned handle and
\* every handle issued before for that key load v.
C12_InsertOverwrites ==
    [][call'.op = "insert" =>
        \A k \in Keys, v \in {Unwrap(call'.val)}, keep \in BOOLEAN : Insert(k, v, keep) =>
          /\ DOMAIN store' = DOMAIN store \cup {k}
          /\ store'[k] = v
          /\ \A x \in DOMAIN store \ {k} : store'[x] = store[x]
          /\ keep => /\ Len(values') = Len(values) + 1
                     /\ values'[Len(values')].key = k
          /\ \A g \in 1..Len(values') :
                values'[g].key = k => ValueLoad(store', values'[g]) = Some(v)]_vars

\* An insert that put a String where an f64 was stored, with a handle for
\* the key issued before it and the handle it returned.
C12_Witness ==
    /\ call.op = "insert"
    /\ call.old # None
    /\ Unwrap(call.old).ty = "f64"
    /\ call.val = Some(Str("banana"))
    /\ call.h = 2
    /\ values[1].key = values[2].key
    /\ ValueLoad(store, values[1]) = Some(Str("banana"))
    /\ Cardinality(DOMAIN store) = 2

(***************************************************************************)
(* text.rs: TextCollection::new_text, and the text of a value.              *)
(***************************************************************************)
Digit(d) ==
    CASE d = 0 -> "0" [] d = 1 -> "1" [] d = 2 -> "2" [] d = 3 -> "3" [] d = 4 -> "4"
      [] d = 5 -> "5" [] d = 6 -> "6" [] d = 7 -> "7" [] d = 8 -> "8" [] d = 9 -> "9"

RECURSIVE NatStr(_)
NatStr(n) == IF n < 10 THEN Digit(n) ELSE NatStr(n \div 10) \o Digit(n % 10)

\* Display of an f64 of n hundredths (n >= 0): the shortest decimal that
\* reads back as the same number, "0", "1.5", "0.01".
F64Display(n) ==
    NatStr(n \div 100) \o
        (IF n % 100 = 0 THEN ""
         ELSE IF n % 10 = 0 THEN "." \o Digit((n % 100) \div 10)
         ELSE "." \o Digit((n % 100) \div 10) \o Digit(n % 10))

\* format!("{:.2}", floatval) for n hundredths.
FormatFixed2(n) ==
    NatStr(n \div 100) \o "." \o Digit((n % 100) \div 10) \o Digit(n % 10)

\* format!("{}", value): the Display of the stored type.
Display(value) ==
    CASE value.ty = "f64" -> F64Display(value.v)
      [] value.ty = "String" -> value.s
      [] value.ty = "bool" -> IF value.b THEN "true" ELSE "false"

\* text.parse::<f64>(), for the numbers of up to MaxHundredths hundredths in
\* their decimal spellings ("1.5" and "1.50" both read as 150 hundredths):
\* Some(number), or None when text spells no number.
MaxHundredths == 150
ParseTable ==
    [t \in {F64Display(n) : n \in 0..MaxHundredths}
              \cup {FormatFixed2(n) : n \in 0..MaxHundredths} |->
        CHOOSE n \in 0..MaxHundredths : t = F64Display(n) \/ t = FormatFixed2(n)]
ParseF64(text) ==
    IF text \in DOMAIN ParseTable THEN Some(ParseTable[text]) ELSE None

\* text2 of new_text: a text that parses as a number is shown with two
\* decimals, any other text as it is.
Text2(text) ==
    IF ParseF64(text) # None
    THEN FormatFixed2(Unwrap(ParseF64(text)))
    ELSE text

\* TextCollection::new_text(rect, text, scale, color): the label pushed.
\* rect is <<left, top, width, height>>, left and top in tenths of a pixel.
\* The buffer is sized to the rect (set_size), so buffer.size().0 is rect[3].
NewText(rect, text, text_scale_factor, color) ==
    [text |-> Text2(text), left |-> rect[1], top |-> rect[2],
     scale |-> text_scale_factor, color |-> color, buffer_size |-> <<rect[3], rect[4]>>]

(***************************************************************************)
(* types.rs: ComponentTransform and InstanceBufferManager.                  *)
(***************************************************************************)
\* ComponentTransform::unit_square_transform_from_pixel_rect.  A coordinate
\* is the fraction <<numerator, denominator>> the f32 expression computes.
UnitSquareTransformFromPixelRect(pixel_rect) ==
    [pixel_rect |-> Some(pixel_rect),
     location |-> [x |-> <<2 * pixel_rect.xy[1] - pixel_rect.extent[1], pixel_rect.extent[1]>>,
                   y |-> <<pixel_rect.extent[2] - 2 * pixel_rect.xy[2], pixel_rect.extent[2]>>],
     scale |-> [x |-> <<2 * pixel_rect.wh[1], pixel_rect.extent[1]>>,
                y |-> <<2 * pixel_rect.wh[2], pixel_rect.extent[2]>>]]

\* queue.write_buffer at slot: the slots written so far, slot overwritten or
\* appended.
WriteBuffer(buffer, slot, new_data) ==
    IF slot + 1 <= Len(buffer)
    THEN [buffer EXCEPT ![slot + 1] = new_data]
    ELSE Append(buffer, new_data)

\* InstanceBufferManager::add_instance: staged at slot data.len(), then
\* pushed with needs_update false.
AddInstance(ibm, transform, tex_transform, color) ==
    [ibm EXCEPT
        !.buffer = WriteBuffer(@, Len(ibm.data),
                       [transform |-> [location |-> transform.location,
                                       scale |-> transform.scale],
                        tex_transform |-> tex_transform, color |-> color]),
        !.data = Append(@, [needs_update |-> FALSE, transform |-> transform,
                            tex_transform |-> tex_transform, color |-> color])]

\* InstanceBufferManager::clear that clears nothing.
InstanceBufferManagerKeep(ibm) == ibm

\* InstanceBufferManager::clear: the local instances only.
InstanceBufferManagerClear(ibm) == [ibm EXCEPT !.data = <<>>]

\* instance_groups[i].add_new(queue, transform, cluster, sub, color): one
\* instance appended, textured with the given cell of the group's sheet.
AddNew(ibm, transform, cluster_index, sub_index, color) ==
    AddInstance(ibm, transform, <<cluster_index, sub_index>>, color)

(***************************************************************************)
(* window.rs: State::layout_listui.                                         *)
(***************************************************************************)
\* tl: the top-left pixel of the list for its anchor; wh.x is 220.
TopLeft(anchor, width) ==
    CASE anchor = "Left" -> <<0, 0>>
      [] anchor = "Middle" -> <<width \div 2 - 220 \div 2, 0>>
      [] anchor = "Right" -> <<width - 220, 0>>
      [] anchor = "Hidden" -> <<0, 0>>

\* The first loop of layout_listui from entry i on: for each entry the label
\* text, the load of its value (a panic when the key is absent) and the
\* value text; final_x is the widest label + value.
RECURSIVE LayoutPass1(_, _, _, _, _, _)
LayoutPass1(listui, tl, i, y_offset, final_x, ts) ==
    IF i > Len(listui.entries)
    THEN [texts |-> ts, final_x |-> final_x, fault |-> "none"]
    ELSE LET item == listui.entries[i]
             selected == listui.selected_index = i - 1
             color == IF selected THEN listui.style.li_selected
                      ELSE listui.style.li_unselected
             label == NewText(<<10 * tl[1] + 25, 10 * (tl[2] + y_offset) + 25, 220, 40>>,
                              item.label \o ": ", 1, color)
             label_width == label.buffer_size[1]
             value == ValueLoad(store, values[item.value])
         IN IF value = None
            THEN [texts |-> Append(ts, label), final_x |-> final_x,
                  fault |-> "unwrap_none"]
            ELSE LET vtext == NewText(<<10 * (tl[1] + label_width) + 25,
                                        10 * (tl[2] + y_offset) + 25, 220, 40>>,
                                      Display(Unwrap(value)), 1, color)
                     value_width == vtext.buffer_size[1]
                     elem_width == label_width + value_width
                 IN LayoutPass1(listui, tl, i + 1, y_offset + 40,
                                IF elem_width > final_x THEN elem_width ELSE final_x,
                                Append(Append(ts, label), vtext))

\* The second loop with every foreground in the unselected style.
RECURSIVE LayoutPass2Unselected(_, _, _, _, _, _, _)
LayoutPass2Unselected(listui, tl, i, y_offset, final_x, ibm, cfg) ==
    IF i > Len(listui.entries)
    THEN ibm
    ELSE LayoutPass2Unselected(listui, tl, i + 1, y_offset + 40, final_x,
             AddNew(ibm,
                    UnitSquareTransformFromPixelRect(
                        [xy |-> <<tl[1] + 4, tl[2] + y_offset + 4>>,
                         wh |-> <<final_x - 4 * 2, 40 - 4 * 2>>,
                         extent |-> <<cfg.width, cfg.height>>]),
                    0, 0, listui.style.li_unselected_bg),
             cfg)

\* The second loop of layout_listui from entry i on: one foreground
\* rectangle per entry, inset by pad = 4, against the extent of cfg.
RECURSIVE LayoutPass2(_, _, _, _, _, _, _)
LayoutPass2(listui, tl, i, y_offset, final_x, ibm, cfg) ==
    IF i > Len(listui.entries)
    THEN ibm
    ELSE LET selected == listui.selected_index = i - 1
         IN LayoutPass2(listui, tl, i + 1, y_offset + 40, final_x,
                AddNew(ibm,
                       UnitSquareTransformFromPixelRect(
                           [xy |-> <<tl[1] + 4, tl[2] + y_offset + 4>>,
                            wh |-> <<final_x - 4 * 2, 40 - 4 * 2>>,
                            extent |-> <<cfg.width, cfg.height>>]),
                       0, 0,
                       IF selected THEN listui.style.li_selected_bg
                       ELSE listui.style.li_unselected_bg),
                cfg)

\* layout_listui after its first loop p1: the background rectangle, then
\* the second loop, unless the first loop panicked.
LayoutAfterPass1(listui, tl, cfg, igs, p1) ==
    [texts |-> p1.texts,
     fault |-> p1.fault,
     instance_groups |->
        [igs EXCEPT ![listui.render_group_index + 1] =
            IF p1.fault # "none"
            THEN InstanceBufferManagerClear(@)
            ELSE LayoutPass2(listui, tl, 1, 0, p1.final_x,
                     AddNew(InstanceBufferManagerClear(@),
                            UnitSquareTransformFromPixelRect(
                                [xy |-> tl, wh |-> <<p1.final_x, cfg.height>>,
                                 extent |-> <<cfg.width, cfg.height>>]),
                            0, 0, listui.style.bg),
                     cfg)]]

\* layout_listui from the computation of tl on.
LayoutFrom(listui, tl, cfg, igs) ==
    LayoutAfterPass1(listui, tl, cfg, igs, LayoutPass1(listui, tl, 1, 0, 0, <<>>))

\* What one run of layout_listui(store, listui_index) makes of the render
\* groups igs under the surface configuration cfg: the texts, the groups and
\* the panic, if any (listui_index counted from 1).
LayoutListuiResult(listui_index, cfg, igs) ==
    LayoutFrom(listuis[listui_index],
               TopLeft(listuis[listui_index].anchor, cfg.width), cfg, igs)

\* State::layout_listui(store, listui_index), listui_index counted from 1.
LayoutListui(listui_index) ==
    /\ fault = "none"
    /\ listui_index \in 1..Len(listuis)
    /\ \E r \in {LayoutListuiResult(listui_index, config, instance_groups)} :
          /\ texts' = r.texts
          /\ fault' = r.fault
          /\ instance_groups' = r.instance_groups
          /\ call' = [op |-> "layout_listui", h |-> listui_index,
                      val |-> None, old |-> None,
                      ret |-> IF r.fault # "none" THEN "panic" ELSE "Ok"]
    /\ UNCHANGED <<overflow_checks, navVars, store, values, config>>

(***************************************************************************)
(* window.rs: what process_events does besides navigation, and main.rs:     *)
(* the steps of the frame loop.                                             *)
(***************************************************************************)
\* <dyn Any>::downcast_ref::<T>(): the value when its concrete type is T,
\* None otherwise.
DowncastRef(value, ty) == IF value.ty = ty THEN Some(value) ELSE None

\* The store block of process_events: "key1" replaced by "banana", then the
\* value of "key3" loaded, downcast to the number it is added to, unwrapped,
\* and replaced by itself + 0.01.  The handles are temporaries.
StoreUpdate ==
    /\ fault = "none"
    /\ LET m1 == ValueReplace(store, Value("key1"), Str("banana"))
           r == ValueLoad(m1, Value("key3"))
           d == IF r = None THEN None ELSE DowncastRef(Unwrap(r), "f64")
       IN /\ d # None => Unwrap(d).v < MaxHundredths
          /\ IF d = None
             THEN /\ store' = m1
                  /\ fault' = "unwrap_none"
             ELSE /\ store' = ValueReplace(m1, Value("key3"), F64(Unwrap(d).v + 1))
                  /\ fault' = "none"
          /\ call' = [op |-> "store_update", h |-> 0, val |-> None, old |-> r]
    /\ UNCHANGED <<overflow_checks, navVars, values, gfxVars>>

\* The caller sets the public field `anchor` of list i.
Anchors == {"Left", "Middle", "Right", "Hidden"}

SetAnchor(i, a) ==
    /\ fault = "none"
    /\ i \in 1..Len(listuis)
    /\ listuis' = [listuis EXCEPT ![i].anchor = a]
    /\ UNCHANGED <<sysVars, last_ui_time, clock, event, storeVars, gfxVars>>

\* Context::resize: the surface configuration takes the new size.
ContextResize(cfg, size) == [cfg EXCEPT !.width = size[1], !.height = size[2]]

\* The loop of the Resized arm from list i on: layout_listui for every list
\* whose anchor is not Hidden, in order; the Result is dropped, a panic is
\* not.
RECURSIVE ResizedLayouts(_, _, _, _)
\* After the layout r of list i: the loop goes on unless r panicked.
ResizedAfter(i, cfg, r) ==
    IF r.fault # "none"
    THEN r
    ELSE ResizedLayouts(i + 1, cfg, r.texts, r.instance_groups)

ResizedLayouts(i, cfg, txts, igs) ==
    IF i > Len(listuis)
    THEN [texts |-> txts, instance_groups |-> igs, fault |-> "none"]
    ELSE IF listuis[i].anchor = "Hidden"
         THEN ResizedLayouts(i + 1, cfg, txts, igs)
         ELSE ResizedAfter(i, cfg, LayoutListuiResult(i, cfg, igs))

\* Event::Window { win_event: WindowEvent::Resized(w, h) }
Resized(w, h) ==
    /\ fault = "none"
    /\ config' = ContextResize(config, <<w, h>>)
    /\ \E r \in {ResizedLayouts(1, ContextResize(config, <<w, h>>),
                                 texts, instance_groups)} :
          /\ texts' = r.texts
          /\ instance_groups' = r.instance_groups
          /\ fault' = r.fault
    /\ event' = [kind |-> "Resized", input_ok |-> FALSE, now |-> clock]
    /\ call' = [op |-> "resized", h |-> 0, val |-> None, old |-> None]
    /\ UNCHANGED <<overflow_checks, listuis, last_ui_time, clock, store, values>>

\* Context::render: for every render group the instances 0..num_instances
\* of its GPU buffer are drawn, then the texts.
Render ==
    /\ fault = "none"
    /\ call' = [op |-> "render", h |-> 0, val |-> None, old |-> None]
    /\ UNCHANGED <<sysVars, navVars, store, values, gfxVars>>

\* sleep(desired_frametime - elapsed): the frame takes its 66 ms, which on
\* the clock's grid is the first multiple of TickMs not below it.
FrameMs == ((66 + TickMs - 1) \div TickMs) * TickMs

Sleep ==
    /\ fault = "none"
    /\ clock + FrameMs <= MaxTime
    /\ clock' = clock + FrameMs
    /\ UNCHANGED <<sysVars, listuis, last_ui_time, event, storeVars, gfxVars>>

\* store.get("time").replace(running_time): the seconds since the start, in
\* hundredths.
TimeReplace ==
    /\ fault = "none"
    /\ store' = ValueReplace(store, Value("time"), F64(clock \div 10))
    /\ call' = [op |-> "replace", h |-> 0, val |-> Some(F64(clock \div 10)),
                old |-> ValueLoad(store, Value("time"))]
    /\ UNCHANGED <<sysVars, navVars, values, gfxVars>>

(***************************************************************************)
(* The layout specification.  It starts as main.rs does, with "time"        *)
(* inserted.  Before the frame loop the driver makes handles with           *)
(* ValueStore::get for the never-inserted key "key1" (as process_events     *)
(* does), creates lists and binds entries to any handle; in the loop it     *)
(* loads through handles, replaces values and lays lists out.  No step of   *)
(* this specification does the arithmetic on which the build profiles       *)
(* differ, so one profile stands for both.                                  *)
(***************************************************************************)
LayoutMaxEntries == 2

RECURSIVE TotalEntries(_, _)
TotalEntries(ls, i) ==
    IF i > Len(ls) THEN 0 ELSE Len(ls[i].entries) + TotalEntries(ls, i + 1)

LayoutInit ==
    /\ overflow_checks = TRUE
    /\ fault = "none"
    /\ listuis = <<>>
    /\ last_ui_time = None
    /\ clock = 0
    /\ event = [kind |-> "None", input_ok |-> FALSE, now |-> 0]
    /\ nav_trace = <<>>
    /\ pc = "setup"
    /\ laid = None
    /\ store = [k \in {"time"} |-> F64(0)]
    /\ values = <<Value("time")>>
    /\ call = NoCall
    /\ texts = <<>>
    /\ instance_groups = <<>>
    /\ config = [width |-> 640, height |-> 480]

LayoutGet == pc = "setup" /\ Get("key1") /\ UNCHANGED drvVars

LayoutNewListui == pc = "setup" /\ NewListui /\ UNCHANGED drvVars

LayoutAddLabeledValue ==
    /\ pc = "setup"
    /\ \E i \in 1..MaxLists, h \in 1..MaxHandles :
          /\ i <= Len(listuis)
          /\ TotalEntries(listuis, 1) < LayoutMaxEntries
          /\ AddLabeledValue(i, "time", h)
    /\ UNCHANGED drvVars

\* The driver enters the frame loop.
LayoutEnterLoop ==
    /\ fault = "none"
    /\ pc = "setup"
    /\ pc' = "loop"
    /\ UNCHANGED <<sysVars, navVars, nav_trace, laid, storeVars, gfxVars>>

LayoutLoad == pc = "loop" /\ (\E h \in 1..MaxHandles : Load(h)) /\ UNCHANGED drvVars

\* The frame loop's store updates: main.rs replaces "time" by the elapsed
\* seconds (an f64), process_events replaces "key1" by the String "banana".
LoopValue(key) == IF key = "time" THEN F64(150) ELSE Str("banana")

LayoutReplace ==
    /\ pc = "loop"
    /\ \E h \in 1..MaxHandles :
          /\ h <= Len(values)
          /\ Replace(h, LoopValue(values[h].key))
    /\ UNCHANGED drvVars

LayoutLayoutListui ==
    /\ pc = "loop"
    /\ \E i \in 1..MaxLists : LayoutListui(i)
    /\ UNCHANGED drvVars

LayoutNext ==
    \/ LayoutGet
    \/ LayoutNewListui
    \/ LayoutAddLabeledValue
    \/ LayoutEnterLoop
    \/ LayoutLoad
    \/ LayoutReplace
    \/ LayoutLayoutListui

LayoutSpec == LayoutInit /\ [][LayoutNext]_vars

(***************************************************************************)
(* Layout claims.                                                           *)
(***************************************************************************)
\* Some entry of the list is bound to a handle whose key is not stored.
MeetsAbsentKey(listui) ==
    \E e \in 1..Len(listui.entries) :
        values[listui.entries[e].value].key \notin DOMAIN store

\* C10: load through a handle whose key is absent from the store ends in a
\* failure, never in a value; a layout pass over a list with such a handle
\* on any entry fails fatally and does not return Ok.
C10_AbsentKeyIsFatal ==
    [][/\ \A h \in 1..MaxHandles :
             (Load(h) /\ values[h].key \notin DOMAIN store) =>
                 /\ fault' = "unwrap_none"
                 /\ call'.ret = None
       /\ \A i \in 1..MaxLists :
             (LayoutListui(i) /\ MeetsAbsentKey(listuis[i])) =>
                 /\ fault' = "unwrap_none"
                 /\ call'.ret = "panic"]_vars

\* A layout pass that laid out a first entry whose key is stored, met a
\* second entry whose key is not, and failed there.
C10_Witness ==
    /\ call.op = "layout_listui"
    /\ call.ret = "panic"
    /\ fault = "unwrap_none"
    /\ Len(listuis[call.h].entries) = 2
    /\ values[listuis[call.h].entries[1].value].key \in DOMAIN store
    /\ values[listuis[call.h].entries[2].value].key \notin DOMAIN store
    /\ Len(texts) = 3

(***************************************************************************)
(* The frame specification: init_loop of main.rs.  The setup inserts        *)
(* "time", may insert "key3" (which process_events loads every frame),      *)
(* creates lists, sets anchors, binds entries and lays a list out; then the *)
(* frame loop runs its steps in the order of the code: process_events (the  *)
(* pending events, the store block, the render), layout_listui, the sleep   *)
(* and the replacement of "time".                                           *)
(***************************************************************************)
Sizes == {<<640, 480>>, <<800, 600>>}

FrameInit ==
    /\ overflow_checks = TRUE
    /\ fault = "none"
    /\ listuis = <<>>
    /\ last_ui_time = None
    /\ clock = 0
    /\ event = [kind |-> "None", input_ok |-> FALSE, now |-> 0]
    /\ nav_trace = <<>>
    /\ pc = "setup"
    /\ laid = None
    /\ store = [k \in {"time"} |-> F64(0)]
    /\ values = <<Value("time")>>
    /\ call = NoCall
    /\ texts = <<>>
    /\ instance_groups = <<>>
    /\ config = [width |-> 640, height |-> 480]

FrameInsert ==
    /\ pc = "setup"
    /\ "key3" \notin DOMAIN store
    /\ \E v \in {F64(0), Str("banana")} : Insert("key3", v, TRUE)
    /\ UNCHANGED drvVars

FrameNewListui == pc = "setup" /\ NewListui /\ UNCHANGED drvVars

\* The setup hides a list it has just created.
FrameSetAnchor ==
    /\ pc = "setup"
    /\ \E i \in 1..MaxLists :
          /\ i <= Len(listuis)
          /\ listuis[i].anchor = "Left"
          /\ Len(listuis[i].entries) = 0
          /\ SetAnchor(i, "Hidden")
    /\ UNCHANGED drvVars

FrameAddLabeledValue ==
    /\ pc = "setup"
    /\ \E i \in 1..MaxLists, h \in 1..MaxHandles :
          /\ i <= Len(listuis)
          /\ TotalEntries(listuis, 1) < LayoutMaxEntries
          /\ AddLabeledValue(i, "time", h)
    /\ UNCHANGED drvVars

\* state.layout_listui(&store, listui_index) of the setup, then the loop.
FrameSetupLayout ==
    /\ pc = "setup"
    /\ \E i \in 1..MaxLists : LayoutListui(i)
    /\ pc' = "events"
    /\ laid' = Some(store)
    /\ UNCHANGED nav_trace

\* One event of events.poll_iter().
FrameResized ==
    /\ pc = "events"
    /\ \E size \in Sizes : Resized(size[1], size[2])
    /\ laid' = IF \E i \in 1..Len(listuis) : listuis[i].anchor # "Hidden"
               THEN Some(store) ELSE laid
    /\ UNCHANGED <<nav_trace, pc>>

FrameKeyDownUp == pc = "events" /\ KeyDown("Up") /\ UNCHANGED drvVars

FrameKeyDownDown == pc = "events" /\ KeyDown("Down") /\ UNCHANGED drvVars

\* The events are drained; the store block runs.
FrameStoreUpdate ==
    /\ pc = "events"
    /\ StoreUpdate
    /\ pc' = "render"
    /\ UNCHANGED <<nav_trace, laid>>

\* context.render().unwrap() at the end of process_events.
FrameRender ==
    /\ pc = "render"
    /\ Render
    /\ pc' = "layout"
    /\ UNCHANGED <<nav_trace, laid>>

\* state.layout_listui(&store.borrow_mut(), listui_index) of the loop.
FrameLayout ==
    /\ pc = "layout"
    /\ \E i \in 1..MaxLists : LayoutListui(i)
    /\ pc' = "sleep"
    /\ laid' = Some(store)
    /\ UNCHANGED nav_trace

FrameSleep ==
    /\ pc = "sleep"
    /\ Sleep
    /\ pc' = "time"
    /\ UNCHANGED <<nav_trace, laid>>

FrameTimeReplace ==
    /\ pc = "time"
    /\ TimeReplace
    /\ pc' = "events"
    /\ UNCHANGED <<nav_trace, laid>>

FrameNext ==
    \/ FrameInsert
    \/ FrameNewListui
    \/ FrameSetAnchor
    \/ FrameAddLabeledValue
    \/ FrameSetupLayout
    \/ FrameResized
    \/ FrameKeyDownUp
    \/ FrameKeyDownDown
    \/ FrameStoreUpdate
    \/ FrameRender
    \/ FrameLayout
    \/ FrameSleep
    \/ FrameTimeReplace

FrameSpec == FrameInit /\ [][FrameNext]_vars

(***************************************************************************)
(* Frame claims.                                                            *)
(***************************************************************************)
\* C11: a downcast of a stored value to a type it does not have yields
\* nothing and never panics: the store block of a frame that finds "key3"
\* holding a value that is not the number it expects skips the update,
\* leaves the value as it is and lets the frame loop run on.
C11_DowncastMismatchIsLocal ==
    [][(/\ StoreUpdate
        /\ "key3" \in DOMAIN store
        /\ DowncastRef(store["key3"], "f64") = None)
          => /\ fault' = "none"
             /\ store'["key3"] = store["key3"]]_vars

\* C13: in every iteration of the frame loop the store mutations come
\* first, then the layout pass, then the render: no render is issued between
\* a store mutation and the next layout pass, so at every render the store
\* is the one the latest layout pass read.
C13_LayoutBeforeRender ==
    [][Render => laid = Some(store)]_vars

\* The layout r1 of list i repeated on its own result gives the same texts
\* and the same render groups (instances and staged slots).
SameAgain(i, r1) ==
    r1.fault = "none" =>
        \A r2 \in {LayoutListuiResult(i, config, r1.instance_groups)} :
            /\ r2.fault = "none"
            /\ r2.texts = r1.texts
            /\ r2.instance_groups = r1.instance_groups

\* C14: the layout pass is idempotent: for any list, store and extent,
\* running layout_listui twice with no change in between yields the same
\* instances (rectangles and colours) and the same texts and positions as
\* running it once.
C14_LayoutIsIdempotent ==
    fault = "none" =>
        \A i \in 1..Len(listuis) :
            \A r1 \in {LayoutListuiResult(i, config, instance_groups)} :
                SameAgain(i, r1)

\* The state after the Resized arm laid out a list of two entries that is
\* laid out already for the same store: the pass reproduced what was there.
C14_Witness ==
    /\ call.op = "resized"
    /\ fault = "none"
    /\ Len(listuis) >= 1
    /\ Len(listuis[1].entries) = 2
    /\ listuis[1].anchor # "Hidden"
    /\ laid = Some(store)
    /\ Len(texts) = 4
    /\ Len(instance_groups[1].data) = 3
    /\ LayoutListuiResult(1, config, instance_groups).texts = texts
    /\ LayoutListuiResult(1, config, instance_groups).instance_groups = instance_groups

\* The render group of the list at index i (counted from 1).
GroupOf(i) == instance_groups[listuis[i].render_group_index + 1]

\* The state is the outcome of a layout pass of list i that returned Ok.
AfterPass(i) ==
    /\ call.op = "layout_listui"
    /\ call.ret = "Ok"
    /\ call.h = i

\* C15: after any number of successive layout passes on a list of N entries
\* its render group holds exactly 1 + N instances, the background and then
\* one foreground per entry in entry order, and the text collection holds
\* exactly 2N texts, label then value per entry: nothing of earlier passes
\* accumulates.
C15_PassLeavesOnePlusNInstances ==
    \A i \in 1..Len(listuis) :
        AfterPass(i) =>
            /\ Len(GroupOf(i).data) = 1 + Len(listuis[i].entries)
            /\ Len(texts) = 2 * Len(listuis[i].entries)
            /\ GroupOf(i).data[1].color = listuis[i].style.bg
            /\ \A k \in 1..Len(listuis[i].entries) :
                  /\ GroupOf(i).data[1 + k].color
                        \in {listuis[i].style.li_selected_bg,
                             listuis[i].style.li_unselected_bg}
                  /\ Unwrap(GroupOf(i).data[1 + k].transform.pixel_rect).xy[2]
                        = 40 * (k - 1) + 4
                  /\ texts[2 * k - 1].text = Text2(listuis[i].entries[k].label \o ": ")
                  /\ texts[2 * k].text
                        = Text2(Display(Unwrap(ValueLoad(store,
                                               values[listuis[i].entries[k].value]))))
                  /\ texts[2 * k - 1].top = 10 * 40 * (k - 1) + 25
                  /\ texts[2 * k].top = 10 * 40 * (k - 1) + 25

\* The pass of a later frame over a list of one entry, after the passes of
\* the setup and of the frames before it and a replace of the value: two
\* instances and two texts.
C15_Witness ==
    /\ Len(listuis) >= 1
    /\ AfterPass(1)
    /\ Len(listuis[1].entries) = 1
    /\ Len(GroupOf(1).data) = 2
    /\ Len(texts) = 2
    /\ texts[1].text = "time: "
    /\ texts[2].text # "0.00"
    /\ pc = "sleep"
    /\ clock >= FrameMs

\* The widest label + value of the texts ts, which hold label then value
\* per entry.
RECURSIVE MaxContentWidth(_, _)
MaxContentWidth(ts, k) ==
    IF 2 * k > Len(ts)
    THEN 0
    ELSE LET w == ts[2 * k - 1].buffer_size[1] + ts[2 * k].buffer_size[1]
             rest == MaxContentWidth(ts, k + 1)
         IN IF w > rest THEN w ELSE rest

\* C16: the background rectangle of a layout pass is at the anchor
\* coordinate, as wide as the widest label + value of the entries and as
\* high as the row height (40) times the number of entries.
C16_BackgroundRect ==
    \A i \in 1..Len(listuis) :
        AfterPass(i) =>
            /\ Unwrap(GroupOf(i).data[1].transform.pixel_rect).xy
                  = TopLeft(listuis[i].anchor, config.width)
            /\ Unwrap(GroupOf(i).data[1].transform.pixel_rect).wh[1]
                  = MaxContentWidth(texts, 1)
            /\ Unwrap(GroupOf(i).data[1].transform.pixel_rect).wh[2]
                  = 40 * Len(listuis[i].entries)

\* The foregrounds in data and the texts ts of the entries of listui are in
\* the selected style for the entry at selected_index and in the unselected
\* style for every other entry.
StyledBySelection(listui, data, ts) ==
    /\ \A k \in 1..Len(listui.entries) :
          IF listui.selected_index = k - 1
          THEN /\ data[1 + k].color = listui.style.li_selected_bg
               /\ ts[2 * k - 1].color = listui.style.li_selected
               /\ ts[2 * k].color = listui.style.li_selected
          ELSE /\ data[1 + k].color = listui.style.li_unselected_bg
               /\ ts[2 * k - 1].color = listui.style.li_unselected
               /\ ts[2 * k].color = listui.style.li_unselected
    /\ Cardinality({k \in 1..Len(listui.entries) :
                        data[1 + k].color = listui.style.li_selected_bg})
          = IF listui.selected_index >= 0
               /\ listui.selected_index < Len(listui.entries)
            THEN 1 ELSE 0

\* The pass of listui when its selected_index is sel.
StyledWhenSelected(listui, sel) ==
    \A r \in {LayoutFrom([listui EXCEPT !.selected_index = sel],
                         TopLeft(listui.anchor, config.width), config,
                         instance_groups)} :
        r.fault = "none" =>
            StyledBySelection([listui EXCEPT !.selected_index = sel],
                              r.instance_groups[listui.render_group_index + 1].data,
                              r.texts)

\* C17: in every layout pass the foreground and both texts of entry i are in
\* the selected style exactly when i = selected_index: one entry is drawn
\* selected when 0 <= selected_index < N, none when selected_index is -1 or
\* out of range.  Stated of the outcome of each pass of the setup and of the
\* frames, and of the pass of the same list with selected_index -1 and N.
C17_SelectedStyleFollowsIndex ==
    \A i \in 1..Len(listuis) :
        (AfterPass(i) /\ (pc = "sleep" \/ event.kind = "None")) =>
            /\ StyledBySelection(listuis[i], GroupOf(i).data, texts)
            /\ StyledWhenSelected(listuis[i], -1)
            /\ StyledWhenSelected(listuis[i], Len(listuis[i].entries))

\* A frame's pass over two entries after one accepted Down: the second
\* entry selected, the first not.
C17_Witness ==
    /\ Len(listuis) >= 1
    /\ AfterPass(1)
    /\ pc = "sleep"
    /\ Len(listuis[1].entries) = 2
    /\ listuis[1].selected_index = 1
    /\ GroupOf(1).data[2].color = "grey_dark"
    /\ GroupOf(1).data[3].color = "grey_medium"
    /\ texts[1].color = "grey_light"
    /\ texts[4].color = "white"

\* C18: a list whose anchor is Hidden is never laid out for display: on
\* every path that runs layout (the setup, the frame loop, the resize
\* handler) no background, foreground or text is emitted for it.  A list is
\* hidden here before its first pass, so its render group stays empty and a
\* pass of it leaves no text.
C18_HiddenIsNeverLaidOut ==
    \A i \in 1..Len(listuis) :
        listuis[i].anchor = "Hidden" =>
            /\ Len(GroupOf(i).data) = 0
            /\ (call.op = "layout_listui" /\ call.h = i) => Len(texts) = 0

(***************************************************************************)
(* types.rs: Instance::translate and recalc_screen_instances; window.rs:    *)
(* Context::update, resize and render over the render groups.               *)
(***************************************************************************)
MaxInstances == 2
MaxMoves == 1

RECURSIVE Gcd(_, _)
Gcd(a, b) == IF b = 0 THEN a ELSE Gcd(b, a % b)

Abs(n) == IF n < 0 THEN -n ELSE n

\* The fraction <<numerator, denominator>> in lowest terms.
Norm(f) == <<f[1] \div Gcd(Abs(f[1]), f[2]), f[2] \div Gcd(Abs(f[1]), f[2])>>

\* a + b of two coordinates.
FracAdd(a, b) == Norm(<<a[1] * b[2] + b[1] * a[2], a[2] * b[2]>>)

\* (v as i32) of a quotient n / d with d > 0: truncation toward zero.
AsI32(n, d) == IF n >= 0 THEN n \div d ELSE -((-n) \div d)

\* ((location * 0.5 + 0.5) * screen) as i32 of one coordinate.
ScreenPixel(coord, screen) == AsI32((coord[1] + coord[2]) * screen, 2 * coord[2])

\* Instance::translate(by): location += by; needs_update = true.
InstanceTranslate(instance, by) ==
    [instance EXCEPT
        !.transform.location = [x |-> FracAdd(@.x, by.x), y |-> FracAdd(@.y, by.y)],
        !.needs_update = TRUE]

\* The InstanceData recalc_screen_instances stages for an instance that has
\* a pixel rectangle, against the extent screen.
Restaged(instance, screen) ==
    LET t == UnitSquareTransformFromPixelRect(
                 [xy |-> <<ScreenPixel(instance.transform.location.x, screen[1]),
                           ScreenPixel(instance.transform.location.y, screen[2])>>,
                  wh |-> Unwrap(instance.transform.pixel_rect).wh,
                  extent |-> screen])
    IN [transform |-> [location |-> t.location, scale |-> t.scale],
        tex_transform |-> instance.tex_transform, color |-> instance.color]

\* recalc_screen_instances that takes every dirty instance for re-staged.
RecalcScreenInstancesAllDirty(ibm, screen) ==
    [ibm EXCEPT
        !.data = [k \in 1..Len(ibm.data) |-> [ibm.data[k] EXCEPT !.needs_update = FALSE]],
        !.buffer = [k \in 1..Len(ibm.buffer) |->
                       IF /\ k <= Len(ibm.data)
                          /\ ibm.data[k].needs_update
                          /\ ibm.data[k].transform.pixel_rect # None
                       THEN Restaged(ibm.data[k], screen)
                       ELSE ibm.buffer[k]]]

\* InstanceBufferManager::recalc_screen_instances(queue, screen).
RecalcScreenInstances(ibm, screen) ==
    [ibm EXCEPT
        !.data = [k \in 1..Len(ibm.data) |->
                     IF /\ ibm.data[k].needs_update
                        /\ ibm.data[k].transform.pixel_rect # None
                     THEN [ibm.data[k] EXCEPT !.needs_update = FALSE]
                     ELSE ibm.data[k]],
        !.buffer = [k \in 1..Len(ibm.buffer) |->
                       IF /\ k <= Len(ibm.data)
                          /\ ibm.data[k].needs_update
                          /\ ibm.data[k].transform.pixel_rect # None
                       THEN Restaged(ibm.data[k], screen)
                       ELSE ibm.buffer[k]]]

\* The raw 3D placement of main.rs: no pixel rectangle, location
\* (-0.5, 0.5) * 0.25, scale 0.25.
RawTransform ==
    [pixel_rect |-> None,
     location |-> [x |-> <<-1, 8>>, y |-> <<1, 8>>],
     scale |-> [x |-> <<1, 4>>, y |-> <<1, 4>>]]

\* The pixel rectangles instances are made from.
PixelRects ==
    {[xy |-> <<0, 0>>, wh |-> <<440, 480>>, extent |-> <<640, 480>>],
     [xy |-> <<160, 120>>, wh |-> <<320, 240>>, extent |-> <<640, 480>>]}

\* The amount instances are translated by.
TranslateBy == [x |-> <<1, 2>>, y |-> <<-1, 2>>]

\* The placement an instance was added with.
Origin(instance) ==
    IF instance.transform.pixel_rect = None
    THEN RawTransform.location
    ELSE UnitSquareTransformFromPixelRect(Unwrap(instance.transform.pixel_rect)).location

\* How many times an instance has been translated by TranslateBy.
Moves(instance) ==
    LET d == FracAdd(instance.transform.location.x,
                     <<-Origin(instance).x[1], Origin(instance).x[2]>>)
    IN (2 * d[1]) \div d[2]

\* instance_groups[g].add_new(queue, transform, 0, 0, color)
AddNewInstance(g, transform, color) ==
    /\ fault = "none"
    /\ g \in 1..Len(instance_groups)
    /\ instance_groups' = [instance_groups EXCEPT ![g] = AddNew(@, transform, 0, 0, color)]
    /\ call' = [op |-> "add_new", h |-> g, val |-> None, old |-> None]
    /\ UNCHANGED <<sysVars, navVars, store, values, texts, config>>

\* instance_groups[g].instance_buffer_manager.data[k].translate(by)
Translate(g, k, by) ==
    /\ fault = "none"
    /\ g \in 1..Len(instance_groups)
    /\ k \in 1..Len(instance_groups[g].data)
    /\ instance_groups' =
          [instance_groups EXCEPT ![g].data[k] = InstanceTranslate(@, by)]
    /\ call' = [op |-> "translate", h |-> k, val |-> None, old |-> None]
    /\ UNCHANGED <<sysVars, navVars, store, values, texts, config>>

\* Context::update: recalc_screen_instances of every render group against
\* the extent of the surface configuration.
Update ==
    /\ fault = "none"
    /\ instance_groups' =
          [g \in 1..Len(instance_groups) |->
              RecalcScreenInstances(instance_groups[g], <<config.width, config.height>>)]
    /\ call' = [op |-> "update", h |-> 0, val |-> None, old |-> None]
    /\ UNCHANGED <<sysVars, navVars, store, values, texts, config>>

\* Context::resize(surface, size): the configuration only.
Resize(w, h) ==
    /\ fault = "none"
    /\ config' = ContextResize(config, <<w, h>>)
    /\ call' = [op |-> "resize", h |-> 0, val |-> None, old |-> None]
    /\ UNCHANGED <<sysVars, navVars, store, values, texts, instance_groups>>

InstanceInit ==
    /\ overflow_checks = TRUE
    /\ fault = "none"
    /\ listuis = <<>>
    /\ last_ui_time = None
    /\ clock = 0
    /\ event = [kind |-> "None", input_ok |-> FALSE, now |-> 0]
    /\ nav_trace = <<>>
    /\ pc = "setup"
    /\ laid = None
    /\ store = [k \in {"time"} |-> F64(0)]
    /\ values = <<Value("time")>>
    /\ call = NoCall
    /\ texts = <<>>
    /\ instance_groups = <<InstanceBufferManagerNew(512)>>
    /\ config = [width |-> 640, height |-> 480]

InstanceAddPixelRect ==
    /\ Len(instance_groups[1].data) < MaxInstances
    /\ \E pr \in PixelRects :
          AddNewInstance(1, UnitSquareTransformFromPixelRect(pr), "grey_darkest")
    /\ UNCHANGED drvVars

InstanceAddRaw ==
    /\ Len(instance_groups[1].data) < MaxInstances
    /\ AddNewInstance(1, RawTransform, "magenta")
    /\ UNCHANGED drvVars

InstanceTranslateStep ==
    /\ \E k \in 1..MaxInstances :
          /\ k <= Len(instance_groups[1].data)
          /\ Moves(instance_groups[1].data[k]) < MaxMoves
          /\ Translate(1, k, TranslateBy)
    /\ UNCHANGED drvVars

InstanceUpdate == Update /\ UNCHANGED drvVars

InstanceResize == (\E size \in Sizes : Resize(size[1], size[2])) /\ UNCHANGED drvVars

InstanceRender == Render /\ UNCHANGED drvVars

InstanceNext ==
    \/ InstanceAddPixelRect
    \/ InstanceAddRaw
    \/ InstanceTranslateStep
    \/ InstanceUpdate
    \/ InstanceResize
    \/ InstanceRender

InstanceSpec == InstanceInit /\ [][InstanceNext]_vars

(***************************************************************************)
(* Instance claims.                                                         *)
(***************************************************************************)
\* Two coordinates are the same number.
FracEq(a, b) == a[1] * b[2] = b[1] * a[2]

\* GPU slot k of the render group ibm holds what local instance k holds.
SlotAgrees(ibm, k) ==
    /\ k <= Len(ibm.buffer)
    /\ FracEq(ibm.buffer[k].transform.location.x, ibm.data[k].transform.location.x)
    /\ FracEq(ibm.buffer[k].transform.location.y, ibm.data[k].transform.location.y)
    /\ FracEq(ibm.buffer[k].transform.scale.x, ibm.data[k].transform.scale.x)
    /\ FracEq(ibm.buffer[k].transform.scale.y, ibm.data[k].transform.scale.y)
    /\ ibm.buffer[k].tex_transform = ibm.data[k].tex_transform
    /\ ibm.buffer[k].color = ibm.data[k].color

\* C19: every local mutation of an instance's placement is mirrored to the
\* GPU buffer before the next draw: at every draw no instance, with a pixel
\* rectangle or raw, has needs_update set, and GPU slot i agrees with local
\* instance i for every i below the instance count.
C19_DrawSeesMirroredInstances ==
    [][Render =>
          \A g \in 1..Len(instance_groups) :
              \A k \in 1..Len(instance_groups[g].data) :
                  /\ ~instance_groups[g].data[k].needs_update
                  /\ SlotAgrees(instance_groups[g], k)]_vars

\* What recalc_screen_instances makes of instance k of the group old, new
\* being the group after it, under the extent extent: a dirty instance with
\* a pixel rectangle is re-staged for the extent and its flag cleared, any
\* other instance keeps its flag and its slot; the local placement, texture
\* and colour stay.
RecalcFrame(old, new, k, extent) ==
    /\ new.data[k].transform = old.data[k].transform
    /\ new.data[k].tex_transform = old.data[k].tex_transform
    /\ new.data[k].color = old.data[k].color
    /\ IF old.data[k].needs_update /\ old.data[k].transform.pixel_rect # None
       THEN /\ ~new.data[k].needs_update
            /\ new.buffer[k].transform.scale
                  = [x |-> <<2 * Unwrap(old.data[k].transform.pixel_rect).wh[1], extent[1]>>,
                     y |-> <<2 * Unwrap(old.data[k].transform.pixel_rect).wh[2], extent[2]>>]
            /\ new.buffer[k].transform.location.x[2] = extent[1]
            /\ new.buffer[k].transform.location.y[2] = extent[2]
            /\ new.buffer[k].tex_transform = old.data[k].tex_transform
            /\ new.buffer[k].color = old.data[k].color
       ELSE /\ new.data[k].needs_update = old.data[k].needs_update
            /\ new.buffer[k] = old.buffer[k]

\* C20: recalc_screen_instances(extent) re-stages exactly the instances that
\* have a pixel rectangle and a set dirty flag, clearing the flag; an
\* instance without a pixel rectangle and a non-dirty instance keep their
\* local fields and their GPU slot, also after a resize from 640x480 to
\* 800x600; the number and the order of the instances do not change.
C20_RecalcRestagesDirtyPixelRects ==
    [][Update =>
          /\ Len(instance_groups') = Len(instance_groups)
          /\ \A g \in 1..Len(instance_groups) :
                /\ Len(instance_groups'[g].data) = Len(instance_groups[g].data)
                /\ Len(instance_groups'[g].buffer) = Len(instance_groups[g].buffer)
                /\ \A k \in 1..Len(instance_groups[g].data) :
                      RecalcFrame(instance_groups[g], instance_groups'[g], k,
                                  <<config.width, config.height>>)]_vars

\* After an update in the 800x600 surface: a translated raw instance still
\* dirty, and a translated instance made from a 640x480 pixel rectangle
\* clean with its slot staged for 800x600.
C20_Witness ==
    /\ call.op = "update"
    /\ config = [width |-> 800, height |-> 600]
    /\ \E k \in 1..Len(instance_groups[1].data) :
          /\ instance_groups[1].data[k].transform.pixel_rect = None
          /\ instance_groups[1].data[k].needs_update
          /\ Moves(instance_groups[1].data[k]) = 1
    /\ \E k \in 1..Len(instance_groups[1].data) :
          /\ instance_groups[1].data[k].transform.pixel_rect # None
          /\ Unwrap(instance_groups[1].data[k].transform.pixel_rect).extent = <<640, 480>>
          /\ ~instance_groups[1].data[k].needs_update
          /\ Moves(instance_groups[1].data[k]) = 1
          /\ instance_groups[1].buffer[k].transform.scale.x[2] = 800
          /\ instance_groups[1].buffer[k].transform.scale.y[2] = 600

(***************************************************************************)
(* The text of a bound value: a list on "time", the value replaced by       *)
(* values of every stored type, and the layout pass that shows it.          *)
(***************************************************************************)
\* Values of the stored types: numbers, a boolean, a text, and a text whose
\* content spells a number.
TextSamples == {F64(0), F64(150), Bool(TRUE), Str("banana"), Str("1.5")}

TextInit ==
    /\ overflow_checks = TRUE
    /\ fault = "none"
    /\ listuis = <<>>
    /\ last_ui_time = None
    /\ clock = 0
    /\ event = [kind |-> "None", input_ok |-> FALSE, now |-> 0]
    /\ nav_trace = <<>>
    /\ pc = "setup"
    /\ laid = None
    /\ store = [k \in {"time"} |-> F64(0)]
    /\ values = <<Value("time")>>
    /\ call = NoCall
    /\ texts = <<>>
    /\ instance_groups = <<>>
    /\ config = [width |-> 640, height |-> 480]

TextNewListui == pc = "setup" /\ NewListui /\ UNCHANGED drvVars

TextAddLabeledValue ==
    /\ pc = "setup"
    /\ \E i \in 1..MaxLists :
          /\ i <= Len(listuis)
          /\ TotalEntries(listuis, 1) < LayoutMaxEntries
          /\ AddLabeledValue(i, "time", 1)
    /\ UNCHANGED drvVars

TextReplace == (\E v \in TextSamples : Replace(1, v)) /\ UNCHANGED drvVars

TextLayoutListui ==
    /\ \E i \in 1..MaxLists : LayoutListui(i)
    /\ pc' = "loop"
    /\ laid' = Some(store)
    /\ UNCHANGED nav_trace

TextNext ==
    \/ TextNewListui
    \/ TextAddLabeledValue
    \/ TextReplace
    \/ TextLayoutListui

TextSpec == TextInit /\ [][TextNext]_vars

\* The display text the claim gives a value: two decimals for a number, the
\* natural text form for every other type.
ClaimedText(value) ==
    IF value.ty = "f64" THEN FormatFixed2(value.v) ELSE Display(value)

\* C21: when a bound value is turned into display text, a value of numeric
\* type is shown with exactly two decimals and a value of any other type
\* (boolean, text) in its natural text form unchanged, also a text whose
\* content parses as a number.
C21_ValueText ==
    \A i \in 1..Len(listuis) :
        AfterPass(i) =>
            \A k \in 1..Len(listuis[i].entries) :
                texts[2 * k].text
                    = ClaimedText(Unwrap(ValueLoad(store, values[listuis[i].entries[k].value])))

(***************************************************************************)
(* Focus and selectability.                                                 *)
(***************************************************************************)
\* C22: an accepted navigation event changes the selection of the focused
\* list only: a list whose focused flag is false keeps its selected_index
\* across every navigation event.
C22_UnfocusedKeepsSelection ==
    [][\A kind \in NavKinds :
          KeyDown(kind) =>
              \A i \in 1..Len(listuis) :
                  ~listuis[i].focused =>
                      listuis'[i].selected_index = listuis[i].selected_index]_vars

\* Lists of Selectable and NotSelectable entries made with add_entry, then
\* navigated.
SelectInit ==
    /\ overflow_checks = TRUE
    /\ fault = "none"
    /\ listuis = <<>>
    /\ last_ui_time = None
    /\ clock = 0
    /\ event = [kind |-> "None", input_ok |-> FALSE, now |-> 0]
    /\ nav_trace = <<>>
    /\ pc = "setup"
    /\ laid = None
    /\ store = [k \in {"time"} |-> F64(0)]
    /\ values = <<Value("time")>>
    /\ call = NoCall
    /\ texts = <<>>
    /\ instance_groups = <<>>
    /\ config = [width |-> 640, height |-> 480]

SelectNewListui == NewListui /\ UNCHANGED drvVars

SelectAddEntry ==
    /\ \E i \in 1..MaxLists, selectable \in {"Selectable", "NotSelectable"} :
          /\ i <= Len(listuis)
          /\ TotalEntries(listuis, 1) < MaxEntries
          /\ AddEntry(i, "time", "Text", selectable, "NotEditable", 1)
    /\ UNCHANGED drvVars

SelectKeyDownUp == KeyDown("Up") /\ UNCHANGED drvVars

SelectKeyDownDown == KeyDown("Down") /\ UNCHANGED drvVars

SelectTick == Tick /\ UNCHANGED drvVars

SelectNext ==
    \/ SelectNewListui
    \/ SelectAddEntry
    \/ SelectKeyDownUp
    \/ SelectKeyDownDown
    \/ SelectTick

SelectSpec == SelectInit /\ [][SelectNext]_vars

\* The list l has a Selectable entry.
HasSelectable(l) ==
    \E e \in 1..Len(l.entries) : l.entries[e].selectable = "Selectable"

\* selected_index of l refers to a Selectable entry.
RestsOnSelectable(l) ==
    /\ l.selected_index >= 0
    /\ l.selected_index < Len(l.entries)
    /\ l.entries[l.selected_index + 1].selectable = "Selectable"

\* C23: after any accepted navigation event on a list that has at least one
\* Selectable entry, selected_index refers to an entry that is Selectable;
\* navigation never rests on a NotSelectable entry.
C23_RestsOnSelectableEntry ==
    [][\A kind \in NavKinds :
          (KeyDown(kind) /\ event'.input_ok /\ fault' = "none") =>
              \A i \in 1..Len(listuis) :
                  HasSelectable(listuis[i]) => RestsOnSelectable(listuis'[i])]_vars

(***************************************************************************)
(* Several lists and the resize handler.                                    *)
(***************************************************************************)
MaxResizeLists == 2

\* State::new_listui while fewer than max lists exist.
NewListuiUpTo(max) ==
    /\ fault = "none"
    /\ Len(listuis) < max
    /\ instance_groups' = Append(instance_groups, InstanceBufferManagerNew(512))
    /\ listuis' = Append(listuis, ListInterfaceDefault(Len(instance_groups)))
    /\ UNCHANGED <<sysVars, last_ui_time, clock, event, storeVars, texts, config>>

ResizeInit ==
    /\ overflow_checks = TRUE
    /\ fault = "none"
    /\ listuis = <<>>
    /\ last_ui_time = None
    /\ clock = 0
    /\ event = [kind |-> "None", input_ok |-> FALSE, now |-> 0]
    /\ nav_trace = <<>>
    /\ pc = "setup"
    /\ laid = None
    /\ store = [k \in {"time"} |-> F64(0)]
    /\ values = <<Value("time")>>
    /\ call = NoCall
    /\ texts = <<>>
    /\ instance_groups = <<>>
    /\ config = [width |-> 640, height |-> 480]

ResizeNewListui == pc = "setup" /\ NewListuiUpTo(MaxResizeLists) /\ UNCHANGED drvVars

ResizeSetAnchor ==
    /\ pc = "setup"
    /\ \E i \in 1..MaxResizeLists :
          /\ i <= Len(listuis)
          /\ listuis[i].anchor = "Left"
          /\ SetAnchor(i, "Hidden")
    /\ UNCHANGED drvVars

ResizeAddLabeledValue ==
    /\ pc = "setup"
    /\ \E i \in 1..MaxResizeLists :
          /\ i <= Len(listuis)
          /\ TotalEntries(listuis, 1) < LayoutMaxEntries
          /\ AddLabeledValue(i, "time", 1)
    /\ UNCHANGED drvVars

ResizeSetupLayout ==
    /\ pc = "setup"
    /\ \E i \in 1..MaxResizeLists : LayoutListui(i)
    /\ pc' = "events"
    /\ laid' = Some(store)
    /\ UNCHANGED nav_trace

ResizeResized ==
    /\ pc = "events"
    /\ \E size \in Sizes : Resized(size[1], size[2])
    /\ laid' = IF \E i \in 1..Len(listuis) : listuis[i].anchor # "Hidden"
               THEN Some(store) ELSE laid
    /\ UNCHANGED <<nav_trace, pc>>

ResizeNext ==
    \/ ResizeNewListui
    \/ ResizeSetAnchor
    \/ ResizeAddLabeledValue
    \/ ResizeSetupLayout
    \/ ResizeResized

ResizeSpec == ResizeInit /\ [][ResizeNext]_vars

\* The entries of the lists from i on that are not Hidden.
RECURSIVE ShownEntries(_, _)
ShownEntries(ls, i) ==
    IF i > Len(ls)
    THEN 0
    ELSE (IF ls[i].anchor = "Hidden" THEN 0 ELSE Len(ls[i].entries))
            + ShownEntries(ls, i + 1)

\* C24: when several lists that are not Hidden are laid out one after
\* another, as the resize handler does, the shared text collection holds
\* afterwards the label and the value text of every list laid out, not only
\* those of the last one.
C24_TextsOfEveryList ==
    (call.op = "resized" /\ fault = "none") =>
        Len(texts) = 2 * ShownEntries(listuis, 1)

(***************************************************************************)
(* The capacity of a list's render group: one list filled entry by entry,   *)
(* then laid out, layout_listui taken one loop iteration at a time.         *)
(***************************************************************************)
MaxCapacityEntries == 512

CapacityInit ==
    /\ overflow_checks = TRUE
    /\ fault = "none"
    /\ listuis = <<>>
    /\ last_ui_time = None
    /\ clock = 0
    /\ event = [kind |-> "None", input_ok |-> FALSE, now |-> 0]
    /\ nav_trace = <<>>
    /\ pc = "setup"
    /\ laid = None
    /\ store = [k \in {"time"} |-> F64(0)]
    /\ values = <<Value("time")>>
    /\ call = NoCall
    /\ texts = <<>>
    /\ instance_groups = <<>>
    /\ config = [width |-> 640, height |-> 480]

\* main.rs makes one list.
CapacityNewListui ==
    /\ pc = "setup"
    /\ Len(listuis) = 0
    /\ NewListui
    /\ UNCHANGED drvVars

\* listui.add_labeled_value("time", time): entries is a Vec, nothing limits
\* its length.
CapacityAddLabeledValue ==
    /\ pc = "setup"
    /\ fault = "none"
    /\ Len(listuis) = 1
    /\ Len(listuis[1].entries) < MaxCapacityEntries
    /\ listuis' = [listuis EXCEPT ![1] = PushLabeledValue(@, "time", 1)]
    /\ UNCHANGED <<sysVars, last_ui_time, clock, event, storeVars, gfxVars, drvVars>>

\* The sizes of the list at which the setup ends and the passes begin.
CapacitySizes == {1, MaxCapacityEntries - 1, MaxCapacityEntries}

\* listui with its entries up to entry i only.
UpToEntry(listui, i) == [listui EXCEPT !.entries = SubSeq(@, 1, i)]

\* final_x after the first loop: the widest label + value of the texts ts.
FinalX(ts) ==
    IF Len(ts) = 0
    THEN 0
    ELSE CHOOSE m \in {ts[2 * k - 1].buffer_size[1] + ts[2 * k].buffer_size[1] :
                          k \in 1..(Len(ts) \div 2)} :
             \A k \in 1..(Len(ts) \div 2) :
                 ts[2 * k - 1].buffer_size[1] + ts[2 * k].buffer_size[1] <= m

\* layout_listui begins: the render group of the list and the texts are
\* cleared.
CapacityBeginPass ==
    /\ pc \in {"setup", "loop"}
    /\ fault = "none"
    /\ Len(listuis) = 1
    /\ Len(listuis[1].entries) \in CapacitySizes
    /\ instance_groups' = [instance_groups EXCEPT
                              ![listuis[1].render_group_index + 1] =
                                  InstanceBufferManagerClear(@)]
    /\ texts' = <<>>
    /\ pc' = "pass1"
    /\ UNCHANGED <<sysVars, navVars, storeVars, config, nav_trace, laid>>

\* One iteration of the first loop: the label and the value text of the
\* next entry.
CapacityPass1Step ==
    /\ pc = "pass1"
    /\ Len(texts) < 2 * Len(listuis[1].entries)
    /\ \E i \in {Len(texts) \div 2 + 1} :
          texts' = LayoutPass1(UpToEntry(listuis[1], i),
                               TopLeft(listuis[1].anchor, config.width),
                               i, 40 * (i - 1), 0, texts).texts
    /\ UNCHANGED <<sysVars, navVars, storeVars, instance_groups, config, drvVars>>

\* The background rectangle after the first loop.
CapacityBackground ==
    /\ pc = "pass1"
    /\ Len(texts) = 2 * Len(listuis[1].entries)
    /\ instance_groups' =
          LayoutAfterPass1(UpToEntry(listuis[1], 0),
                           TopLeft(listuis[1].anchor, config.width),
                           config, instance_groups,
                           [texts |-> texts, final_x |-> FinalX(texts),
                            fault |-> "none"]).instance_groups
    /\ pc' = "pass2"
    /\ UNCHANGED <<sysVars, navVars, storeVars, texts, config, nav_trace, laid>>

\* One iteration of the second loop: the foreground of the next entry.
CapacityPass2Step ==
    /\ pc = "pass2"
    /\ Len(GroupOf(1).data) < 1 + Len(listuis[1].entries)
    /\ \E i \in {Len(GroupOf(1).data)} :
          instance_groups' =
              [instance_groups EXCEPT ![listuis[1].render_group_index + 1] =
                  LayoutPass2(UpToEntry(listuis[1], i),
                              TopLeft(listuis[1].anchor, config.width),
                              i, 40 * (i - 1),
                              Unwrap(@.data[1].transform.pixel_rect).wh[1],
                              @, config)]
    /\ UNCHANGED <<sysVars, navVars, storeVars, texts, config, drvVars>>

\* layout_listui returns Ok(()).
CapacityEndPass ==
    /\ pc = "pass2"
    /\ Len(GroupOf(1).data) = 1 + Len(listuis[1].entries)
    /\ call' = [op |-> "layout_listui", h |-> 1, val |-> None, old |-> None,
                ret |-> "Ok"]
    /\ pc' = "loop"
    /\ laid' = Some(store)
    /\ UNCHANGED <<sysVars, navVars, store, values, gfxVars, nav_trace>>

CapacityNext ==
    \/ CapacityNewListui
    \/ CapacityAddLabeledValue
    \/ CapacityBeginPass
    \/ CapacityPass1Step
    \/ CapacityBackground
    \/ CapacityPass2Step
    \/ CapacityEndPass

CapacitySpec == CapacityInit /\ [][CapacityNext]_vars

\* The pass made of its steps leaves what layout_listui leaves (compared for
\* the list of one entry).
CapacityStepsAreThePass ==
    (pc = "loop" /\ Len(listuis[1].entries) = 1) =>
        /\ LayoutListuiResult(1, config, instance_groups).texts = texts
        /\ LayoutListuiResult(1, config, instance_groups).instance_groups = instance_groups

\* C25: add_instance stages each new instance at the GPU slot whose index
\* is the instance count before the call, and that index is always below
\* the capacity the buffer was created with (512 for the render group of a
\* list): no sequence of appends and layout passes stages an instance at or
\* beyond the capacity.  The slots staged so far are 0..Len(buffer) - 1.
C25_SlotsBelowCapacity ==
    \A g \in 1..Len(instance_groups) :
        /\ Len(instance_groups[g].data) <= Len(instance_groups[g].buffer)
        /\ Len(instance_groups[g].buffer) <= instance_groups[g].capacity

(***************************************************************************)
(* The first frame of the program as main.rs sets it up.                    *)
(***************************************************************************)
\* C26: with the store as the entry point sets it up (only "time" is
\* inserted) the store block of process_events never loads a key that is
\* absent from the store: the first frame passes it without a failed load
\* and goes on to the layout pass.
C26_StoreBlockLoadsStoredKeys ==
    [][(StoreUpdate /\ DOMAIN store = {"time"}) =>
          /\ call'.old # None
          /\ fault' = "none"]_vars

====
